---- MODULE Spec2Model ----
(***************************************************************************)
(* Model of the dhakapost opinion-feed scraper.                            *)
(*                                                                         *)
(*   src/render_and_extract.py  find_balanced_object, sanitize_js_object,  *)
(*                              extract_json_like, load_old_guids,         *)
(*                              build_rss, normalize_items, main           *)
(*   src/generate_rss.py        RSSFeedGenerator.extract_articles,         *)
(*                              RSSFeedGenerator.update_feed               *)
(*                                                                         *)
(* Text is a sequence of tokens.  A token is one character ("{", "a", ...) *)
(* or an atom: a run of characters that the inputs only ever contain whole *)
(* ("initialContents", "<script", "</script>", "URL", "amp;", ...).  No    *)
(* atom contains a brace, bracket, quote, backslash, slash, star, comma,   *)
(* colon or whitespace, so str.find and the regular expressions of the     *)
(* source act on tokens exactly as they act on the characters.             *)
(* Indices are 1-based; Python's -1 ("not found") is 0 here.               *)
(***************************************************************************)
EXTENDS Naturals, Integers, Sequences, FiniteSets, TLC

VARIABLES
    pc,          \* position of the operation under way
    html,        \* the text handed to the operation (opinion.html, s, raw)
    start_idx,   \* find_balanced_object's start_idx
    raw,         \* the parsed structure (main's raw, normalize_items' raw)
    ret,         \* the value the operation returned
    feed,        \* FEED_FILE: its text, or Missing
    old_guids,   \* main's old_guids
    new_items,   \* main's new_items
    final,       \* main's final
    exit_code,   \* the process's exit status (NoExit while it has not ended)
    runs         \* how many times the scripts have run

vars == <<pc, html, start_idx, raw, ret, feed, old_guids, new_items, final, exit_code, runs>>

(***************************************************************************)
(* Characters                                                              *)
(***************************************************************************)
DQ == "\""
SQ == "'"
BS == "\\"
NL == "\n"
SP == " "

\* Python's None where a text is expected; no input holds this token.
None == <<"None">>

\* runs of spaces that indent the lines of the feed
Indent2 == "  "
Indent4 == "    "
Indent6 == "      "

\* str.isspace for the characters of the inputs (\s of the regular expressions)
IsSpace(c) == c \in {SP, NL, Indent2, Indent4, Indent6}

Min(a, b) == IF a < b THEN a ELSE b
Max(a, b) == IF a > b THEN a ELSE b

\* s[i:j] of Python for 1-based i and inclusive j
Slice(s, i, j) == IF i > j THEN <<>> ELSE SubSeq(s, i, Min(j, Len(s)))

\* whether the tokens of pat stand in s at position i
StartsAt(s, pat, i) ==
    /\ i >= 1
    /\ i + Len(pat) - 1 <= Len(s)
    /\ \A k \in 1..Len(pat) : s[i + k - 1] = pat[k]

\* str.find(pat, from): the first position >= from where pat stands, 0 if none
Find(s, pat, from) ==
    LET hits == {i \in Max(from, 1)..Len(s) : StartsAt(s, pat, i)}
    IN  IF hits = {} THEN 0 ELSE CHOOSE i \in hits : \A j \in hits : i <= j

(***************************************************************************)
(* find_balanced_object (src/render_and_extract.py:63-89)                  *)
(***************************************************************************)
\* the inner loop with line 75 as i += 1: the escape consumes one character, not
\* two, so the character after a backslash is read as any other
RECURSIVE SkipStringNoEscape(_, _, _)
SkipStringNoEscape(s, i, quote) ==
    IF i > Len(s) THEN i
    ELSE IF s[i] = quote THEN i + 1
    ELSE SkipStringNoEscape(s, i + 1, quote)

\* the inner while loop (lines 73-80): i is inside a string opened by quote;
\* the result is the index at which the outer loop resumes
RECURSIVE SkipString(_, _, _)
SkipString(s, i, quote) ==
    IF i > Len(s) THEN i
    ELSE IF s[i] = BS THEN SkipString(s, i + 2, quote)
    ELSE IF s[i] = quote THEN i + 1
    ELSE SkipString(s, i + 1, quote)

\* the outer while loop (lines 68-88)
RECURSIVE ScanObject(_, _, _, _)
ScanObject(s, start, i, depth) ==
    IF i > Len(s) THEN None
    ELSE IF s[i] = DQ \/ s[i] = SQ
         THEN ScanObject(s, start, SkipString(s, i + 1, s[i]), depth)
    ELSE IF s[i] = "{" THEN ScanObject(s, start, i + 1, depth + 1)
    ELSE IF s[i] = "}"
         THEN IF depth - 1 = 0 THEN SubSeq(s, start, i)
              ELSE ScanObject(s, start, i + 1, depth - 1)
    ELSE ScanObject(s, start, i + 1, depth)

find_balanced_object(s, start) ==
    IF start < 1 \/ start > Len(s) \/ s[start] # "{" THEN None
    ELSE ScanObject(s, start, start, 0)

(***************************************************************************)
(* Scanning: find_balanced_object applied to every short text              *)
(***************************************************************************)
MaxScanLen == 6

ScanAlphabet == {"{", "}", DQ, SQ, BS, "a"}

RECURSIVE TextsOver(_, _)
TextsOver(alphabet, n) ==
    IF n = 0 THEN {<<>>}
    ELSE LET shorter == TextsOver(alphabet, n - 1)
         IN  shorter \cup {Append(t, c) : t \in {u \in shorter : Len(u) = n - 1}, c \in alphabet}

ScanPrefixes == {<<>>, <<DQ>>}

Idle == <<"idle">>

InitScan ==
    /\ pc = "scan"
    /\ \E p \in ScanPrefixes, body \in TextsOver(ScanAlphabet, MaxScanLen) :
          /\ html = p \o <<"{">> \o body
          /\ start_idx = Len(p) + 1
    /\ raw = Idle /\ ret = Idle /\ feed = Idle
    /\ old_guids = <<>> /\ new_items = <<>> /\ final = <<>> /\ exit_code = "NoExit" /\ runs = 0

\* raw = find_balanced_object(html, brace_idx)
Scan ==
    /\ pc = "scan"
    /\ ret' = find_balanced_object(html, start_idx)
    /\ pc' = "scanned"
    /\ UNCHANGED <<html, start_idx, raw, feed, old_guids, new_items, final, exit_code, runs>>

NextScan == Scan

SpecScan == InitScan /\ [][NextScan]_vars

\* The scanner the claim describes, one character at a time: outside a string a
\* quote opens one; inside, the same quote closes it and a backslash makes the
\* next character plain content.
RefStep(mode, c) ==
    CASE mode = "code" -> IF c = DQ THEN "dq" ELSE IF c = SQ THEN "sq" ELSE "code"
      [] mode = "dq"   -> IF c = BS THEN "dqesc" ELSE IF c = DQ THEN "code" ELSE "dq"
      [] mode = "sq"   -> IF c = BS THEN "sqesc" ELSE IF c = SQ THEN "code" ELSE "sq"
      [] mode = "dqesc" -> "dq"
      [] mode = "sqesc" -> "sq"

\* the mode in which s[k] is read, the scan having started in code at from
RECURSIVE RefModeAt(_, _, _)
RefModeAt(s, from, k) ==
    IF k <= from THEN "code" ELSE RefStep(RefModeAt(s, from, k - 1), s[k - 1])

\* the nesting depth after s[k], counting only braces read in code
RECURSIVE RefDepth(_, _, _)
RefDepth(s, from, k) ==
    IF k < from THEN 0
    ELSE RefDepth(s, from, k - 1)
         + (IF RefModeAt(s, from, k) = "code" /\ s[k] = "{" THEN 1 ELSE 0)
         - (IF RefModeAt(s, from, k) = "code" /\ s[k] = "}" THEN 1 ELSE 0)

RefClosers(s, from) ==
    {k \in from..Len(s) : /\ RefModeAt(s, from, k) = "code"
                          /\ s[k] = "}"
                          /\ RefDepth(s, from, k) = 0}

RefBalanced(s, from) ==
    IF RefClosers(s, from) = {} THEN None
    ELSE SubSeq(s, from, CHOOSE k \in RefClosers(s, from) : \A j \in RefClosers(s, from) : k <= j)

\* C3: find_balanced_object(s, i) with s[i] = "{" returns the text from i through
\* the brace that matches it, braces inside quoted strings not counting and a
\* backslash inside a string consuming the next character; None when no brace
\* matches.
C3_BalancedSpan ==
    (pc = "scanned" /\ html[start_idx] = "{") => ret = RefBalanced(html, start_idx)

\* an object is returned whose string holds a brace and an escaped quote
C3_Witness ==
    /\ pc = "scanned"
    /\ ret # None
    /\ \E k \in start_idx..(start_idx + Len(ret) - 1) :
          /\ RefModeAt(html, start_idx, k) \in {"dq", "sq"}
          /\ html[k] \in {"{", "}"}
    /\ \E k \in start_idx..(start_idx + Len(ret) - 1) :
          /\ RefModeAt(html, start_idx, k) \in {"dqesc", "sqesc"}
          /\ html[k] \in {DQ, SQ, BS}

(***************************************************************************)
(* Parsed structures and json.loads / json.dumps                           *)
(*                                                                         *)
(* The inputs hold no digit and no letter run that spells true, false,     *)
(* null, NaN or Infinity, so a value is a string, an array or an object.   *)
(* A dict is the sequence of its <<key, value>> pairs in insertion order.  *)
(***************************************************************************)
JStr(s) == [t |-> "str", v |-> s]
JArr(a) == [t |-> "arr", v |-> a]
JObj(m) == [t |-> "obj", v |-> m]
PyNone == [t |-> "none"]
\* json.loads raised
ParseError == [t |-> "error"]

Bad == [ok |-> FALSE, val |-> PyNone, next |-> 0]
Good(v, n) == [ok |-> TRUE, val |-> v, next |-> n]

\* WHITESPACE.match of json.decoder
RECURSIVE SkipWs(_, _)
SkipWs(s, i) == IF i <= Len(s) /\ IsSpace(s[i]) THEN SkipWs(s, i + 1) ELSE i

\* \s+ inside a window that ends at hi
RECURSIVE SkipWsIn(_, _, _)
SkipWsIn(s, i, hi) == IF i <= hi /\ IsSpace(s[i]) THEN SkipWsIn(s, i + 1, hi) ELSE i

\* the character an escape stands for, <<>> when json rejects the escape
Unescape(c) ==
    IF c \in {DQ, BS, "/"} THEN <<c>> ELSE IF c = "n" THEN <<NL>> ELSE <<>>

\* py_scanstring, strict: i follows the opening quote
RECURSIVE ScanString(_, _, _)
ScanString(s, i, acc) ==
    IF i > Len(s) THEN Bad
    ELSE IF s[i] = DQ THEN Good(acc, i + 1)
    ELSE IF s[i] = NL THEN Bad
    ELSE IF s[i] = BS
         THEN IF i + 1 > Len(s) \/ Unescape(s[i + 1]) = <<>> THEN Bad
              ELSE ScanString(s, i + 2, acc \o Unescape(s[i + 1]))
    ELSE ScanString(s, i + 1, Append(acc, s[i]))

\* d[k] = v
DictPut(m, k, v) ==
    IF \E j \in 1..Len(m) : m[j][1] = k
    THEN [j \in 1..Len(m) |-> IF m[j][1] = k THEN <<k, v>> ELSE m[j]]
    ELSE Append(m, <<k, v>>)

RECURSIVE ParseValue(_, _)
RECURSIVE ParseMembers(_, _, _)
RECURSIVE ParseElements(_, _, _)

\* JSONObject after a key is due: i is at the key's opening quote
ParseMembers(s, i, acc) ==
    IF i > Len(s) \/ s[i] # DQ THEN Bad
    ELSE LET k == ScanString(s, i + 1, <<>>)
         IN  IF ~k.ok THEN Bad
             ELSE LET c == SkipWs(s, k.next)
                  IN  IF c > Len(s) \/ s[c] # ":" THEN Bad
                      ELSE LET v == ParseValue(s, SkipWs(s, c + 1))
                           IN  IF ~v.ok THEN Bad
                               ELSE LET e == SkipWs(s, v.next)
                                        m == DictPut(acc, k.val, v.val)
                                    IN  IF e > Len(s) THEN Bad
                                        ELSE IF s[e] = "}" THEN Good(JObj(m), e + 1)
                                        ELSE IF s[e] = "," THEN ParseMembers(s, SkipWs(s, e + 1), m)
                                        ELSE Bad

\* JSONArray after its "[": i is at the next element
ParseElements(s, i, acc) ==
    LET v == ParseValue(s, i)
    IN  IF ~v.ok THEN Bad
        ELSE LET e == SkipWs(s, v.next)
                 a == Append(acc, v.val)
             IN  IF e > Len(s) THEN Bad
                 ELSE IF s[e] = "]" THEN Good(JArr(a), e + 1)
                 ELSE IF s[e] = "," THEN ParseElements(s, SkipWs(s, e + 1), a)
                 ELSE Bad

\* scan_once
ParseValue(s, i) ==
    IF i > Len(s) THEN Bad
    ELSE IF s[i] = DQ
         THEN LET r == ScanString(s, i + 1, <<>>)
              IN  IF r.ok THEN Good(JStr(r.val), r.next) ELSE Bad
    ELSE IF s[i] = "{"
         THEN LET j == SkipWs(s, i + 1)
              IN  IF j <= Len(s) /\ s[j] = "}" THEN Good(JObj(<<>>), j + 1)
                  ELSE ParseMembers(s, j, <<>>)
    ELSE IF s[i] = "["
         THEN LET j == SkipWs(s, i + 1)
              IN  IF j <= Len(s) /\ s[j] = "]" THEN Good(JArr(<<>>), j + 1)
                  ELSE ParseElements(s, j, <<>>)
    ELSE Bad

\* json.loads: one value, whitespace around it, nothing else
json_loads(s) ==
    LET r == ParseValue(s, SkipWs(s, 1))
    IN  IF r.ok /\ SkipWs(s, r.next) = Len(s) + 1 THEN r.val ELSE ParseError

\* json.dumps of a str (ensure_ascii changes no character of the inputs)
RECURSIVE EscapeJson(_)
EscapeJson(s) ==
    IF s = <<>> THEN <<>>
    ELSE (IF Head(s) = DQ THEN <<BS, DQ>>
          ELSE IF Head(s) = BS THEN <<BS, BS>>
          ELSE IF Head(s) = NL THEN <<BS, "n">>
          ELSE <<Head(s)>>) \o EscapeJson(Tail(s))

json_dumps(s) == <<DQ>> \o EscapeJson(s) \o <<DQ>>

(***************************************************************************)
(* sanitize_js_object (src/render_and_extract.py:91-105)                   *)
(***************************************************************************)
\* re.sub(r"/\*[\s\S]*?\*/", "", raw)
RECURSIVE RemoveBlockComments(_, _)
RemoveBlockComments(s, i) ==
    IF i > Len(s) THEN <<>>
    ELSE IF StartsAt(s, <<"/", "*">>, i) /\ Find(s, <<"*", "/">>, i + 2) # 0
         THEN RemoveBlockComments(s, Find(s, <<"*", "/">>, i + 2) + 2)
    ELSE <<s[i]>> \o RemoveBlockComments(s, i + 1)

\* the end of [^\n\r]* from i
RECURSIVE LineEnd(_, _)
LineEnd(s, i) == IF i <= Len(s) /\ s[i] # NL THEN LineEnd(s, i + 1) ELSE i

\* re.sub(r"//[^\n\r]*", "", no_block)
RECURSIVE RemoveLineComments(_, _)
RemoveLineComments(s, i) ==
    IF i > Len(s) THEN <<>>
    ELSE IF StartsAt(s, <<"/", "/">>, i) THEN RemoveLineComments(s, LineEnd(s, i + 2))
    ELSE <<s[i]>> \o RemoveLineComments(s, i + 1)

\* re.sub(r",\s*([}\]])", r"\1", no_line)
RECURSIVE RemoveTrailingCommas(_, _)
RemoveTrailingCommas(s, i) ==
    IF i > Len(s) THEN <<>>
    ELSE LET j == SkipWs(s, i + 1)
         IN  IF s[i] = "," /\ j <= Len(s) /\ s[j] \in {"}", "]"}
             THEN <<s[j]>> \o RemoveTrailingCommas(s, j + 1)
             ELSE <<s[i]>> \o RemoveTrailingCommas(s, i + 1)

\* [^'\\]*(?:\\.[^'\\]*)*' from i: the index of the closing quote, 0 when the
\* pattern does not match ("." matches no line break)
RECURSIVE SingleQuoteEnd(_, _)
SingleQuoteEnd(s, i) ==
    IF i > Len(s) THEN 0
    ELSE IF s[i] = SQ THEN i
    ELSE IF s[i] = BS
         THEN IF i + 1 > Len(s) \/ s[i + 1] = NL THEN 0 ELSE SingleQuoteEnd(s, i + 2)
    ELSE SingleQuoteEnd(s, i + 1)

\* replace_single_quote: m.group(1) goes to json.dumps as it stands
replace_single_quote(inner) == json_dumps(inner)

\* re.sub(r"'([^'\\]*(?:\\.[^'\\]*)*)'", replace_single_quote, no_trailing)
RECURSIVE ConvertSingleQuotes(_, _)
ConvertSingleQuotes(s, i) ==
    IF i > Len(s) THEN <<>>
    ELSE IF s[i] = SQ /\ SingleQuoteEnd(s, i + 1) # 0
         THEN replace_single_quote(Slice(s, i + 1, SingleQuoteEnd(s, i + 1) - 1))
              \o ConvertSingleQuotes(s, SingleQuoteEnd(s, i + 1) + 1)
    ELSE <<s[i]>> \o ConvertSingleQuotes(s, i + 1)

sanitize_js_object(s) ==
    LET no_block    == RemoveBlockComments(s, 1)
        no_line     == RemoveLineComments(no_block, 1)
        no_trailing == RemoveTrailingCommas(no_line, 1)
    IN  ConvertSingleQuotes(no_trailing, 1)

(***************************************************************************)
(* Sanitizing: sanitize_js_object applied to short literals, once and twice *)
(***************************************************************************)
MaxSanLen == 4

SanAlphabet == {DQ, SQ, ",", BS, "/", "*", "a", NL, "]"}

\* an object with one member, or an array, around the body
SanWrappers == {<< <<"{", DQ, "a", DQ, ":">>, <<"}">> >>, << <<"[">>, <<"]">> >>}

InitSanitize ==
    /\ pc = "sanitize"
    /\ \E w \in SanWrappers, body \in TextsOver(SanAlphabet, MaxSanLen) :
          html = w[1] \o body \o w[2]
    /\ start_idx = 1
    /\ raw = Idle /\ ret = Idle /\ feed = Idle
    /\ old_guids = <<>> /\ new_items = <<>> /\ final = <<>> /\ exit_code = "NoExit" /\ runs = 0

\* cleaned = sanitize_js_object(raw)
Sanitize ==
    /\ pc = "sanitize"
    /\ ret' = sanitize_js_object(html)
    /\ pc' = "sanitized"
    /\ UNCHANGED <<html, start_idx, raw, feed, old_guids, new_items, final, exit_code, runs>>

\* sanitize_js_object applied to its own result
SanitizeAgain ==
    /\ pc = "sanitized"
    /\ ret' = sanitize_js_object(ret)
    /\ pc' = "sanitized twice"
    /\ UNCHANGED <<html, start_idx, raw, feed, old_guids, new_items, final, exit_code, runs>>

NextSanitize == Sanitize \/ SanitizeAgain

SpecSanitize == InitSanitize /\ [][NextSanitize]_vars

\* The value of a JS literal as the claim reads it: comments are white space
\* outside strings, a comma may precede "}" or "]", a string is quoted with
\* either quote and holds its characters as they stand, \' \" \\ \/ and \n
\* being the escapes.
RECURSIVE RefSkip(_, _)
RefSkip(s, i) ==
    IF i > Len(s) THEN i
    ELSE IF IsSpace(s[i]) THEN RefSkip(s, i + 1)
    ELSE IF StartsAt(s, <<"/", "/">>, i) THEN RefSkip(s, LineEnd(s, i + 2))
    ELSE IF StartsAt(s, <<"/", "*">>, i) /\ Find(s, <<"*", "/">>, i + 2) # 0
         THEN RefSkip(s, Find(s, <<"*", "/">>, i + 2) + 2)
    ELSE i

RefUnescape(c) ==
    IF c \in {DQ, SQ, BS, "/"} THEN <<c>> ELSE IF c = "n" THEN <<NL>> ELSE <<>>

RECURSIVE RefString(_, _, _, _)
RefString(s, i, quote, acc) ==
    IF i > Len(s) THEN Bad
    ELSE IF s[i] = quote THEN Good(acc, i + 1)
    ELSE IF s[i] = NL THEN Bad
    ELSE IF s[i] = BS
         THEN IF i + 1 > Len(s) \/ RefUnescape(s[i + 1]) = <<>> THEN Bad
              ELSE RefString(s, i + 2, quote, acc \o RefUnescape(s[i + 1]))
    ELSE RefString(s, i + 1, quote, Append(acc, s[i]))

RECURSIVE RefValue(_, _)
RECURSIVE RefMembers(_, _, _)
RECURSIVE RefElements(_, _, _)

RefMembers(s, i, acc) ==
    IF i > Len(s) THEN Bad
    ELSE IF s[i] = "}" THEN Good(JObj(acc), i + 1)
    ELSE IF s[i] \notin {DQ, SQ} THEN Bad
    ELSE LET k == RefString(s, i + 1, s[i], <<>>)
         IN  IF ~k.ok THEN Bad
             ELSE LET c == RefSkip(s, k.next)
                  IN  IF c > Len(s) \/ s[c] # ":" THEN Bad
                      ELSE LET v == RefValue(s, RefSkip(s, c + 1))
                           IN  IF ~v.ok THEN Bad
                               ELSE LET e == RefSkip(s, v.next)
                                        m == DictPut(acc, k.val, v.val)
                                    IN  IF e > Len(s) THEN Bad
                                        ELSE IF s[e] = "}" THEN Good(JObj(m), e + 1)
                                        ELSE IF s[e] = "," THEN RefMembers(s, RefSkip(s, e + 1), m)
                                        ELSE Bad

RefElements(s, i, acc) ==
    IF i > Len(s) THEN Bad
    ELSE IF s[i] = "]" THEN Good(JArr(acc), i + 1)
    ELSE LET v == RefValue(s, i)
         IN  IF ~v.ok THEN Bad
             ELSE LET e == RefSkip(s, v.next)
                      a == Append(acc, v.val)
                  IN  IF e > Len(s) THEN Bad
                      ELSE IF s[e] = "]" THEN Good(JArr(a), e + 1)
                      ELSE IF s[e] = "," THEN RefElements(s, RefSkip(s, e + 1), a)
                      ELSE Bad

RefValue(s, i) ==
    IF i > Len(s) THEN Bad
    ELSE IF s[i] \in {DQ, SQ}
         THEN LET r == RefString(s, i + 1, s[i], <<>>)
              IN  IF r.ok THEN Good(JStr(r.val), r.next) ELSE Bad
    ELSE IF s[i] = "{" THEN RefMembers(s, RefSkip(s, i + 1), <<>>)
    ELSE IF s[i] = "[" THEN RefElements(s, RefSkip(s, i + 1), <<>>)
    ELSE Bad

RefJsValue(s) ==
    LET r == RefValue(s, RefSkip(s, 1))
    IN  IF r.ok /\ RefSkip(s, r.next) = Len(s) + 1 THEN r.val ELSE ParseError

\* C5: for a JS literal with single- and double-quoted strings, trailing commas
\* and comments, sanitize_js_object returns JSON that parses to the literal's
\* value, the characters inside its strings unchanged.
C5_SanitizedValue ==
    (pc = "sanitized" /\ RefJsValue(html) # ParseError) => json_loads(ret) = RefJsValue(html)

\* a JS literal that is not JSON was sanitized
C5_Witness ==
    /\ pc = "sanitized"
    /\ RefJsValue(html) # ParseError
    /\ json_loads(html) = ParseError

\* C6: for strict JSON j, sanitize_js_object(j) and
\* sanitize_js_object(sanitize_js_object(j)) parse to the value of j.
C6_NoOpOnJson ==
    (pc \in {"sanitized", "sanitized twice"} /\ json_loads(html) # ParseError)
        => json_loads(ret) = json_loads(html)

\* strict JSON was sanitized twice
C6_Witness ==
    /\ pc = "sanitized twice"
    /\ json_loads(html) # ParseError

(***************************************************************************)
(* normalize_items (src/render_and_extract.py:179-207)                     *)
(*                                                                         *)
(* The field values of the inputs are strings (or absent), so str(value)   *)
(* is the value.                                                           *)
(***************************************************************************)
\* dict.get(k): None when the key is absent
DictGet(m, k) ==
    IF \E j \in 1..Len(m) : m[j][1] = k
    THEN m[CHOOSE j \in 1..Len(m) : m[j][1] = k][2]
    ELSE PyNone

\* bool(v)
Truthy(v) == v.t \in {"str", "arr", "obj"} /\ v.v # <<>>

\* a or b
Or(a, b) == IF Truthy(a) THEN a ELSE b

\* str.strip()
RECURSIVE LStrip(_)
LStrip(s) == IF s # <<>> /\ IsSpace(Head(s)) THEN LStrip(Tail(s)) ELSE s
RECURSIVE RStrip(_)
RStrip(s) == IF s # <<>> /\ IsSpace(s[Len(s)]) THEN RStrip(SubSeq(s, 1, Len(s) - 1)) ELSE s
Strip(s) == RStrip(LStrip(s))

\* str(v).strip()
StrStrip(v) == Strip(v.v)

Key(k) == <<k>>
Get(i, k) == DictGet(i.v, Key(k))

\* next((raw[k] for k in raw if isinstance(raw[k], list)), [])
FirstListValue(m) ==
    IF \E j \in 1..Len(m) : m[j][2].t = "arr"
    THEN m[CHOOSE j \in 1..Len(m) :
              /\ m[j][2].t = "arr"
              /\ \A h \in 1..(j - 1) : m[h][2].t # "arr"][2].v
    ELSE <<>>

\* lines 180-195
data_items(r) ==
    IF r.t = "arr" THEN r.v
    ELSE IF r.t = "obj"
         THEN IF Get(r, "items").t = "arr" THEN Get(r, "items").v
              ELSE IF Get(r, "contents").t = "arr" THEN Get(r, "contents").v
              ELSE IF Get(r, "articles").t = "arr" THEN Get(r, "articles").v
              ELSE FirstListValue(r.v)
    ELSE <<>>

\* url with line 201 reading "url" before "URL": the alias order changed
item_url_swapped(i) ==
    Or(Or(Or(Or(Get(i, "url"), Get(i, "URL")), Get(i, "link")), Get(i, "href")), Get(i, "path"))

\* line 201
item_url(i) ==
    Or(Or(Or(Or(Get(i, "URL"), Get(i, "url")), Get(i, "link")), Get(i, "href")), Get(i, "path"))

\* line 202
item_title(i) ==
    Or(Or(Or(Or(Get(i, "Heading"), Get(i, "title")), Get(i, "heading")), Get(i, "name")),
       Get(i, "headline"))

\* line 203
item_brief(i) ==
    Or(Or(Or(Or(Or(Get(i, "Brief"), Get(i, "brief")), Get(i, "summary")), Get(i, "excerpt")),
          Get(i, "snippet")), JStr(<<>>))

\* the loop of lines 198-206
RECURSIVE NormalizeLoop(_, _)
NormalizeLoop(items, k) ==
    IF k > Len(items) THEN <<>>
    ELSE LET i == items[k]
         IN  IF i.t # "obj" THEN NormalizeLoop(items, k + 1)
             ELSE IF ~Truthy(item_url(i)) THEN NormalizeLoop(items, k + 1)
             ELSE <<[url   |-> StrStrip(item_url(i)),
                     title |-> StrStrip(Or(item_title(i), JStr(<<>>))),
                     brief |-> StrStrip(Or(item_brief(i), JStr(<<>>)))]>>
                  \o NormalizeLoop(items, k + 1)

normalize_items(r) == NormalizeLoop(data_items(r), 1)

(***************************************************************************)
(* Normalizing: normalize_items applied to parsed structures               *)
(***************************************************************************)
MaxBatch == 3

UrlAliases   == <<"URL", "url", "link", "href", "path">>
TitleAliases == <<"Heading", "title", "heading", "name", "headline">>
BriefAliases == <<"Brief", "brief", "summary", "excerpt", "snippet">>

Member(k, s) == <<Key(k), JStr(s)>>

\* the two records of the specification's example
HeadingUrlBrief == JObj(<<Member("Heading", <<"T">>), Member("URL", <<"u">>), Member("Brief", <<"b">>)>>)
TitleLinkSummary == JObj(<<Member("title", <<"T">>), Member("link", <<"u">>), Member("summary", <<"b">>)>>)

\* the elements the batches are made of
BatchElements ==
    { HeadingUrlBrief,
      TitleLinkSummary,
      JStr(<<"x">>),                                                   \* not a mapping
      JObj(<<Member("title", <<"T">>)>>),                              \* no URL under any alias
      JObj(<<Member("URL", <<>>), Member("href", <<SP, "v", SP>>)>>),  \* first alias empty
      JObj(<<Member("url", <<SP>>), Member("name", <<"T">>)>>) }       \* a blank URL

RECURSIVE SeqsOver(_, _)
SeqsOver(S, n) ==
    IF n = 0 THEN {<<>>}
    ELSE LET shorter == SeqsOver(S, n - 1)
         IN  shorter \cup {Append(q, x) : q \in {u \in shorter : Len(u) = n - 1}, x \in S}

\* a list as the page embeds it: bare, or under a key of a mapping
Shapes(list) ==
    { JArr(list),
      JObj(<< <<Key("items"), JArr(list)>> >>),
      JObj(<< <<Key("a"), JStr(<<"x">>)>>, <<Key("contents"), JArr(list)>> >>),
      JObj(<< <<Key("articles"), JArr(list)>>, <<Key("x"), JArr(<<HeadingUrlBrief>>)>> >>),
      JObj(<< <<Key("a"), JStr(<<"x">>)>>, <<Key("x"), JArr(list)>>, <<Key("y"), JArr(<<>>)>> >>) }

\* one record: under each alias of one field nothing, "", " " or " <alias> "
AliasOptions == {"absent", "empty", "blank", "value"}

RECURSIVE AliasMembers(_, _, _)
AliasMembers(aliases, f, k) ==
    IF k > Len(aliases) THEN <<>>
    ELSE (CASE f[k] = "absent" -> <<>>
            [] f[k] = "empty"  -> <<Member(aliases[k], <<>>)>>
            [] f[k] = "blank"  -> <<Member(aliases[k], <<SP>>)>>
            [] f[k] = "value"  -> <<Member(aliases[k], <<SP, aliases[k], SP>>)>>)
         \o AliasMembers(aliases, f, k + 1)

AliasRecords ==
    {JObj(AliasMembers(UrlAliases, f, 1) \o <<Member("title", <<"T">>)>>) :
        f \in [1..5 -> AliasOptions]}
    \cup {JObj(<<Member("URL", <<"u">>)>> \o AliasMembers(TitleAliases, f, 1)) :
        f \in [1..5 -> AliasOptions]}
    \cup {JObj(<<Member("URL", <<"u">>)>> \o AliasMembers(BriefAliases, f, 1)) :
        f \in [1..5 -> AliasOptions]}

NormalizeInputs ==
    UNION {Shapes(list) : list \in SeqsOver(BatchElements, MaxBatch)}
    \cup {JArr(<<r>>) : r \in AliasRecords}
    \cup {PyNone, JObj(<<>>), JStr(<<"x">>)}

InitNormalize ==
    /\ pc = "normalize"
    /\ raw \in NormalizeInputs
    /\ html = <<>> /\ start_idx = 1 /\ ret = Idle /\ feed = Idle
    /\ old_guids = <<>> /\ new_items = <<>> /\ final = <<>> /\ exit_code = "NoExit" /\ runs = 0

\* new_items = normalize_items(raw)
Normalize ==
    /\ pc = "normalize"
    /\ new_items' = normalize_items(raw)
    /\ pc' = "normalized"
    /\ UNCHANGED <<html, start_idx, raw, ret, feed, old_guids, final, exit_code, runs>>

NextNormalize == Normalize

SpecNormalize == InitNormalize /\ [][NextNormalize]_vars

\* the value of a field as the claims read it: that of the first alias, in
\* order, under which the record holds a non-empty value; <<>> when there is none
RefFirst(e, aliases) ==
    LET present == {k \in 1..Len(aliases) :
                       /\ \E j \in 1..Len(e.v) : e.v[j][1] = Key(aliases[k])
                       /\ DictGet(e.v, Key(aliases[k])).v # <<>>}
    IN  IF present = {} THEN <<>>
        ELSE DictGet(e.v, Key(aliases[CHOOSE k \in present : \A h \in present : k <= h])).v

RefRecord(e) ==
    [url   |-> Strip(RefFirst(e, UrlAliases)),
     title |-> Strip(RefFirst(e, TitleAliases)),
     brief |-> Strip(RefFirst(e, BriefAliases))]

RefHasUrl(e) == e.t = "obj" /\ RefFirst(e, UrlAliases) # <<>>

\* an element C7 says is dropped: not a mapping, or its URL under every alias
\* missing, empty, or empty once trimmed
RefDroppable(e) ==
    \/ e.t # "obj"
    \/ \A k \in 1..Len(UrlAliases) : Strip(Or(Get(e, UrlAliases[k]), JStr(<<>>)).v) = <<>>

\* C7: every record normalize_items returns has a non-empty url, and a
\* 3-element input with exactly one element that is not a mapping or has no
\* URL that survives trimming yields exactly 2 records.
C7_NonEmptyUrl ==
    pc = "normalized" =>
        /\ \A k \in 1..Len(new_items) : new_items[k].url # <<>>
        /\ (raw.t = "arr" /\ Len(raw.v) = 3
              /\ Cardinality({k \in 1..3 : RefDroppable(raw.v[k])}) = 1)
           => Len(new_items) = 2

\* three elements, the one without any URL dropped and the batch carried on
C7_Witness ==
    /\ pc = "normalized"
    /\ raw.t = "arr" /\ Len(raw.v) = 3
    /\ Cardinality({k \in 1..3 : RefDroppable(raw.v[k])}) = 1
    /\ Len(new_items) = 2

\* C8: each returned record holds, trimmed, the first non-empty value among
\* URL, url, link, href, path as url, among Heading, title, heading, name,
\* headline as title and among Brief, brief, summary, excerpt, snippet as
\* brief, title and brief being "" when there is none; one record per mapping
\* with such a url, in input order.
C8_AliasMapping ==
    pc = "normalized" =>
        LET kept == SelectSeq(data_items(raw), RefHasUrl)
        IN  new_items = [k \in 1..Len(kept) |-> RefRecord(kept[k])]

\* the two records of the example, normalized to the same canonical record
C8_Witness ==
    /\ pc = "normalized"
    /\ raw = JArr(<<HeadingUrlBrief, TitleLinkSummary>>)
    /\ new_items = <<[url |-> <<"u">>, title |-> <<"T">>, brief |-> <<"b">>],
                     [url |-> <<"u">>, title |-> <<"T">>, brief |-> <<"b">>]>>

(***************************************************************************)
(* extract_json_like (src/render_and_extract.py:107-153)                   *)
(***************************************************************************)
\* the labels of lines 108-115, each the tokens that spell it
labels ==
    << <<"initialContents">>,
       <<"initial_contents">>,
       <<"__", "INITIAL_STATE", "__">>,
       <<"window.", "__", "INITIAL_STATE", "__">>,
       <<"window.", "initialContents">>,
       <<"INITIAL_STATE">> >>

Return(v) == [done |-> TRUE, val |-> v]
Continue == [done |-> FALSE, val |-> PyNone]

\* lines 126-131 (and 148-152): sanitize the span, parse it, go on when that fails
parse_span(span) ==
    IF json_loads(sanitize_js_object(span)) # ParseError
    THEN Return(json_loads(sanitize_js_object(span)))
    ELSE Continue

\* the body of the loop with line 131 giving up instead of going on to the next
\* label: a span that balances but does not parse ends the search
try_label_stop(h, label) ==
    LET idx       == Find(h, label, 1)
        brace_idx == Find(h, <<"{">>, idx)
        span      == find_balanced_object(h, brace_idx)
    IN  IF idx = 0 \/ brace_idx = 0 \/ span = None THEN Continue
        ELSE IF parse_span(span).done THEN parse_span(span) ELSE Return(PyNone)

\* the body of the loop over the labels (lines 117-131)
try_label(h, label) ==
    LET idx       == Find(h, label, 1)
        brace_idx == Find(h, <<"{">>, idx)
        span      == find_balanced_object(h, brace_idx)
    IN  IF idx = 0 THEN Continue
        ELSE IF brace_idx = 0 THEN Continue
        ELSE IF span = None THEN Continue
        ELSE parse_span(span)

\* the tokens whose last character is ">" (none holds another ">")
EndsWithGt(c) ==
    c \in {">", "</script>", "]]>", "/>",
           "<?xml version=\"1.0\" encoding=\"UTF-8\"?>", "<rss version=\"2.0\">",
           "<channel>", "</channel>", "</rss>", "<item>", "</item>",
           "<title>", "</title>", "<link>", "</link>", "</guid>",
           "<description>", "</description>", "<language>", "</language>",
           "<lastBuildDate>", "</lastBuildDate>", "<generator>", "</generator>",
           "<pubDate>", "</pubDate>", "<category>", "</category>",
           "<dc:creator>", "</dc:creator>", "<content:encoded>", "</content:encoded>",
           "<br/>"}

\* the tokens whose first character is "<"
StartsWithLt(c) == c \in {"<", "<script", "</script>"}

\* the tokens whose last character is none of [A-Za-z0-9_$]
NonWordTokens ==
    {"{", "}", "[", "]", DQ, SQ, ",", ":", BS, "/", "*", SP, NL, "=", ";", "<", ">", "&", ".",
     "window.", "</script>", "type=", "]]>"}
EndsWithWordChar(c) == c \notin NonWordTokens

\* <script[^>]*> from the "<script" at p: the index of the token that ends the
\* tag, 0 when no ">" follows
TagEnd(h, p) ==
    LET ends == {k \in (p + 1)..Len(h) : EndsWithGt(h[k])}
    IN  IF ends = {} THEN 0 ELSE CHOOSE k \in ends : \A j \in ends : k <= j

\* type=["\']application/json["\'] somewhere in the tag that spans p..k
HasJsonType(h, p, k) ==
    \E j \in (p + 1)..(k - 4) :
        /\ h[j] = "type="
        /\ h[j + 1] \in {DQ, SQ}
        /\ h[j + 2] = "application/json"
        /\ h[j + 3] \in {DQ, SQ}

\* whether <script[^>]*...>([\s\S]*?)</script> matches from p
ScriptAt(h, p, json_only) ==
    /\ h[p] = "<script"
    /\ TagEnd(h, p) # 0
    /\ json_only => HasJsonType(h, p, TagEnd(h, p))
    /\ Find(h, <<"</script>">>, TagEnd(h, p) + 1) # 0

\* re.finditer's next match at or after from: where it starts, the bounds of
\* group 1 and where it ends; start = 0 when there is none
NextScript(h, from, json_only) ==
    LET starts == {p \in Max(from, 1)..Len(h) : ScriptAt(h, p, json_only)}
    IN  IF starts = {} THEN [start |-> 0, lo |-> 0, hi |-> 0, end |-> 0]
        ELSE LET p == CHOOSE q \in starts : \A r \in starts : q <= r
                 e == Find(h, <<"</script>">>, TagEnd(h, p) + 1)
             IN  [start |-> p, lo |-> TagEnd(h, p) + 1, hi |-> e - 1, end |-> e]

\* lines 134-138
RECURSIVE JsonScriptLoop(_, _)
JsonScriptLoop(h, from) ==
    LET m == NextScript(h, from, TRUE)
    IN  IF m.start = 0 THEN Continue
        ELSE IF json_loads(Slice(h, m.lo, m.hi)) # ParseError
             THEN Return(json_loads(Slice(h, m.lo, m.hi)))
        ELSE JsonScriptLoop(h, m.end + 1)

\* the last token before i that is no white space, not below lo (0 if none)
RECURSIVE BackWs(_, _, _)
BackWs(h, i, lo) ==
    IF i < lo THEN 0 ELSE IF IsSpace(h[i]) THEN BackWs(h, i - 1, lo) ELSE i

\* ([A-Za-z0-9_\$]+)\s*[:=]\s*{ ending with the "{" at b, all of it at or after lo
AssignmentEndsAt(h, b, lo) ==
    /\ h[b] = "{"
    /\ LET j == BackWs(h, b - 1, lo)
       IN  /\ j # 0
           /\ \/ h[j] = "type="
              \/ /\ h[j] \in {":", "="}
                 /\ BackWs(h, j - 1, lo) # 0
                 /\ EndsWithWordChar(h[BackWs(h, j - 1, lo)])

\* lines 143-152: the assignments of one script, in order; brace_pos is b
RECURSIVE AssignmentLoop(_, _, _, _)
AssignmentLoop(h, b, lo, hi) ==
    IF b > hi THEN Continue
    ELSE IF ~AssignmentEndsAt(h, b, lo) THEN AssignmentLoop(h, b + 1, lo, hi)
    ELSE IF find_balanced_object(h, b) = None THEN AssignmentLoop(h, b + 1, lo, hi)
    ELSE IF parse_span(find_balanced_object(h, b)).done
         THEN parse_span(find_balanced_object(h, b))
    ELSE AssignmentLoop(h, b + 1, lo, hi)

\* lines 141-152
RECURSIVE GenericScriptLoop(_, _)
GenericScriptLoop(h, from) ==
    LET m == NextScript(h, from, FALSE)
    IN  IF m.start = 0 THEN Continue
        ELSE IF AssignmentLoop(h, m.lo, m.lo, m.hi).done
             THEN AssignmentLoop(h, m.lo, m.lo, m.hi)
        ELSE GenericScriptLoop(h, m.end + 1)

\* lines 116-131
RECURSIVE LabelLoop(_, _)
LabelLoop(h, k) ==
    IF k > Len(labels) THEN Continue
    ELSE IF try_label(h, labels[k]).done THEN try_label(h, labels[k])
    ELSE LabelLoop(h, k + 1)

extract_json_like(h) ==
    IF LabelLoop(h, 1).done THEN LabelLoop(h, 1).val
    ELSE IF JsonScriptLoop(h, 1).done THEN JsonScriptLoop(h, 1).val
    ELSE IF GenericScriptLoop(h, 1).done THEN GenericScriptLoop(h, 1).val
    ELSE PyNone

(***************************************************************************)
(* RSSFeedGenerator.extract_articles (src/generate_rss.py:32-157)          *)
(***************************************************************************)
\* self.max_articles and MAX_ITEMS are 500 in the source.  The model runs the
\* same code with the limit at 3, so that lists longer than the limit, and
\* their truncation, occur within the bounds.
max_articles == 3
MAX_ITEMS == 3

\* the 50000 characters searched for the end of the array (lines 81 and 97)
ScanWindow == 50000

WindowEnd(h, start) == Min(Len(h), start + ScanWindow - 1)

Least(S) == CHOOSE k \in S : \A j \in S : k <= j

\* re.search(r'\];', window): the index of "]" in the first match
SemicolonEnds(h, start) ==
    {m \in start..(WindowEnd(h, start) - 1) : h[m] = "]" /\ h[m + 1] = ";"}

\* re.search(r'\]\s*<', window): the index of "<" in a match
TagEnds(h, start) ==
    {SkipWs(h, m + 1) : m \in {n \in start..WindowEnd(h, start) :
        /\ h[n] = "]"
        /\ SkipWs(h, n + 1) <= WindowEnd(h, start)
        /\ StartsWithLt(h[SkipWs(h, n + 1)])}}

\* re.search(r'\]\s*var\s+', window): the index of the last character matched
NextVarEnds(h, start) ==
    {SkipWsIn(h, SkipWs(h, m + 1) + 1, WindowEnd(h, start)) - 1 :
        m \in {n \in start..WindowEnd(h, start) :
            /\ h[n] = "]"
            /\ SkipWs(h, n + 1) < WindowEnd(h, start)
            /\ h[SkipWs(h, n + 1)] = "var"
            /\ IsSpace(h[SkipWs(h, n + 1) + 1])}}

\* lines 93-120: the index after the bracket that closes the array, 0 if none
RECURSIVE BracketCount(_, _, _, _, _, _)
BracketCount(h, i, hi, bracket_count, in_string, escape_next) ==
    IF i > hi THEN 0
    ELSE IF escape_next THEN BracketCount(h, i + 1, hi, bracket_count, in_string, FALSE)
    ELSE IF h[i] = BS THEN BracketCount(h, i + 1, hi, bracket_count, in_string, TRUE)
    ELSE IF h[i] = DQ THEN BracketCount(h, i + 1, hi, bracket_count, ~in_string, FALSE)
    ELSE IF ~in_string /\ h[i] \in {"[", "{"}
         THEN BracketCount(h, i + 1, hi, bracket_count + 1, in_string, FALSE)
    ELSE IF ~in_string /\ h[i] \in {"]", "}"}
         THEN IF bracket_count - 1 = 0 THEN i + 1
              ELSE BracketCount(h, i + 1, hi, bracket_count - 1, in_string, FALSE)
    ELSE BracketCount(h, i + 1, hi, bracket_count, in_string, FALSE)

\* lines 71-126: the index after the last character of json_str, 0 when the
\* end of the array is not found
ArrayEnd(h, start) ==
    IF SemicolonEnds(h, start) # {} THEN Least(SemicolonEnds(h, start)) + 1
    ELSE IF TagEnds(h, start) # {} THEN Least(TagEnds(h, start))
    ELSE IF NextVarEnds(h, start) # {} THEN Least(NextVarEnds(h, start))
    ELSE BracketCount(h, start, WindowEnd(h, start), 0, FALSE, FALSE)

\* articles[:self.max_articles]
Truncate(s, n) == IF Len(s) > n THEN SubSeq(s, 1, n) ELSE s

extract_articles(h) ==
    LET idx   == Find(h, <<"initialContents">>, 1)
        start == Find(h, <<"[">>, idx)
        end   == ArrayEnd(h, start)
        articles == json_loads(Slice(h, start, end - 1))
    IN  IF idx = 0 \/ start = 0 \/ end = 0 THEN <<>>
        ELSE IF articles = ParseError THEN <<>>
        ELSE Truncate(articles.v, max_articles)

(***************************************************************************)
(* Extracting: extract_json_like and extract_articles applied to pages     *)
(***************************************************************************)
MaxSegments == 3
MaxArrayLen == 2

\* json.dumps of a parsed structure, as a page embeds it
RECURSIVE ToJson(_)
RECURSIVE ToJsonList(_, _)
ToJsonList(vs, pairs) ==
    IF vs = <<>> THEN <<>>
    ELSE (IF pairs THEN json_dumps(Head(vs)[1]) \o <<":">> \o ToJson(Head(vs)[2])
          ELSE ToJson(Head(vs)))
         \o (IF Len(vs) > 1 THEN <<",", SP>> ELSE <<>>)
         \o ToJsonList(Tail(vs), pairs)
ToJson(v) ==
    CASE v.t = "str" -> json_dumps(v.v)
      [] v.t = "arr" -> <<"[">> \o ToJsonList(v.v, FALSE) \o <<"]">>
      [] v.t = "obj" -> <<"{">> \o ToJsonList(v.v, TRUE) \o <<"}">>

\* the records of the embedded arrays
ArrayRecords ==
    { JObj(<<Member("URL", <<"x">>)>>),
      JObj(<<Member("URL", <<"y">>), Member("Heading", <<"T">>)>>),
      JObj(<<Member("URL", <<"z", "]", ";">>)>>) }

EmbeddedArrays == {JArr(a) : a \in SeqsOver(ArrayRecords, MaxArrayLen) \ {<<>>}}

\* what may follow the array
AfterArray == {<<";">>, <<>>, <<NL, "</script>">>, <<";", "</script>", "<script", ">", "a", "=", "[", "]", ";">>}

\* a well-formed array embedded verbatim after the label initialContents
ArrayPage(array, after) == <<"<script", ">", "initialContents", SP, "=", SP>> \o ToJson(array) \o after

ArrayPages == {ArrayPage(a, after) : a \in EmbeddedArrays, after \in AfterArray}

JsonScriptTag == <<"<script", SP, "type=", DQ, "application/json", DQ, ">">>

\* pieces of pages: labels and scripts whose data parses, or balances without
\* parsing, or does not balance, or is missing
Segments ==
    { <<"initialContents", "=", "{", "a", "}", ";">>,
      <<"initialContents", ";">>,
      <<"initial_contents", "=", "{", DQ, "a", DQ, ":", DQ, "x", DQ, "}", ";">>,
      <<"window.", "__", "INITIAL_STATE", "__", "=", "{", SQ, "x", SQ, ":", DQ, "a", DQ, ",", "}">>,
      <<"INITIAL_STATE", "=", "{", DQ>>,
      JsonScriptTag \o <<"[", DQ, "a", DQ, "]", "</script>">>,
      JsonScriptTag \o <<"{", "a", "</script>">>,
      <<"<script", ">", "a", SP, "=", SP, "{", DQ, "x", DQ, ":", DQ, "x", DQ, "}", "</script>">>,
      <<"<script", ">", "x", ":", "{", "x", "}", "</script>">> }

RECURSIVE Concat(_)
Concat(segs) == IF segs = <<>> THEN <<>> ELSE Head(segs) \o Concat(Tail(segs))

SegmentPages == {Concat(q) : q \in SeqsOver(Segments, MaxSegments)}

InitExtract ==
    /\ pc = "extract"
    /\ html \in ArrayPages \cup SegmentPages
    /\ start_idx = 1 /\ raw = Idle /\ ret = Idle /\ feed = Idle
    /\ old_guids = <<>> /\ new_items = <<>> /\ final = <<>> /\ exit_code = "NoExit" /\ runs = 0

\* raw = extract_json_like(html)
Extract ==
    /\ pc = "extract"
    /\ ret' = extract_json_like(html)
    /\ pc' = "extracted"
    /\ UNCHANGED <<html, start_idx, raw, feed, old_guids, new_items, final, exit_code, runs>>

\* articles = self.extract_articles(html_content)
ExtractArticles ==
    /\ pc = "extract"
    /\ ret' = JArr(extract_articles(html))
    /\ pc' = "articles extracted"
    /\ UNCHANGED <<html, start_idx, raw, feed, old_guids, new_items, final, exit_code, runs>>

NextExtract == Extract \/ ExtractArticles

SpecExtract == InitExtract /\ [][NextExtract]_vars

\* C4: a well-formed JSON array of records embedded verbatim after a
\* recognized label is returned whole, its elements in order, by
\* extract_json_like and (up to max_articles elements) by extract_articles.
C4_ArrayRecovered ==
    \A a \in EmbeddedArrays, after \in AfterArray :
        (html = ArrayPage(a, after) /\ pc \in {"extracted", "articles extracted"}
           /\ Len(a.v) <= max_articles)
        => ret = a

\* a page embedding an array of two records went through extract_json_like
C4_Witness ==
    /\ pc = "extracted"
    /\ \E a \in EmbeddedArrays, after \in AfterArray : html = ArrayPage(a, after) /\ Len(a.v) = 2

\* The candidates of the three strategies, in the order the claim gives: what
\* each parses to (ParseError when it does not parse), a label with no brace or
\* no balanced span giving no candidate.
RefParse(span) == json_loads(sanitize_js_object(span))

RECURSIVE RefLabelCandidates(_, _)
RefLabelCandidates(h, k) ==
    IF k > Len(labels) THEN <<>>
    ELSE LET span == find_balanced_object(h, Find(h, <<"{">>, Find(h, labels[k], 1)))
         IN  (IF Find(h, labels[k], 1) = 0 \/ span = None THEN <<>> ELSE <<RefParse(span)>>)
             \o RefLabelCandidates(h, k + 1)

RECURSIVE RefJsonScriptCandidates(_, _)
RefJsonScriptCandidates(h, from) ==
    LET m == NextScript(h, from, TRUE)
    IN  IF m.start = 0 THEN <<>>
        ELSE <<json_loads(Slice(h, m.lo, m.hi))>> \o RefJsonScriptCandidates(h, m.end + 1)

RECURSIVE RefAssignmentCandidates(_, _, _, _)
RefAssignmentCandidates(h, b, lo, hi) ==
    IF b > hi THEN <<>>
    ELSE (IF AssignmentEndsAt(h, b, lo) /\ find_balanced_object(h, b) # None
          THEN <<RefParse(find_balanced_object(h, b))>> ELSE <<>>)
         \o RefAssignmentCandidates(h, b + 1, lo, hi)

RECURSIVE RefGenericCandidates(_, _)
RefGenericCandidates(h, from) ==
    LET m == NextScript(h, from, FALSE)
    IN  IF m.start = 0 THEN <<>>
        ELSE RefAssignmentCandidates(h, m.lo, m.lo, m.hi) \o RefGenericCandidates(h, m.end + 1)

RefCandidates(h) ==
    RefLabelCandidates(h, 1) \o RefJsonScriptCandidates(h, 1) \o RefGenericCandidates(h, 1)

RefFirstParsed(cands) ==
    LET parsed == {k \in 1..Len(cands) : cands[k] # ParseError}
    IN  IF parsed = {} THEN PyNone ELSE cands[Least(parsed)]

\* C10: extract_json_like returns the first candidate that parses, the labels
\* in list order coming before the application/json scripts and these before
\* the assignments in scripts; a candidate that fails never ends the search,
\* and None is returned only when every candidate fails.
C10_FirstSuccess ==
    pc = "extracted" => ret = RefFirstParsed(RefCandidates(html))

\* a label's span balanced and failed to parse, a script's JSON failed to
\* parse, and the value of a later script assignment was returned
C10_Witness ==
    /\ pc = "extracted"
    /\ RefLabelCandidates(html, 1) # <<>>
    /\ RefJsonScriptCandidates(html, 1) # <<>>
    /\ \A k \in 1..Len(RefLabelCandidates(html, 1)) : RefLabelCandidates(html, 1)[k] = ParseError
    /\ \A k \in 1..Len(RefJsonScriptCandidates(html, 1)) :
          RefJsonScriptCandidates(html, 1)[k] = ParseError
    /\ ret # PyNone

(***************************************************************************)
(* The feed file: html.escape, build_rss, load_old_guids                   *)
(* (src/render_and_extract.py:156-177)                                     *)
(***************************************************************************)
\* FEED_FILE does not exist
Missing == <<"(no file)">>

\* html.escape(s), quote=True; the texts escaped hold these characters only as
\* single tokens
RECURSIVE html_escape(_)
html_escape(s) ==
    IF s = <<>> THEN <<>>
    ELSE (CASE Head(s) = "&" -> <<"&", "amp;">>
            [] Head(s) = "<" -> <<"&", "lt;">>
            [] Head(s) = ">" -> <<"&", "gt;">>
            [] Head(s) = DQ  -> <<"&", "quot;">>
            [] Head(s) = SQ  -> <<"&", "#x27;">>
            [] OTHER         -> <<Head(s)>>)
         \o html_escape(Tail(s))

\* lines 163-165
RssHead ==
    <<"<?xml version=\"1.0\" encoding=\"UTF-8\"?>", NL, "<rss version=\"2.0\">", NL,
      "<channel>", NL,
      "<title>", "DhakaPost Opinion Feed", "</title>", NL,
      "<link>", "https://www.dhakapost.com/opinion", "</link>", NL,
      "<description>", "Generated", "</description>", NL>>
RssTail == <<NL, "</channel>", NL, "</rss>", NL>>

\* lines 168-176
RssItem(i) ==
    <<"<item>", NL>>
    \o <<Indent2, "<title>", "<![CDATA[">> \o i.title \o <<"]]>", "</title>", NL>>
    \o <<Indent2, "<link>">> \o html_escape(i.url) \o <<"</link>", NL>>
    \o <<Indent2, "<guid", ">">> \o html_escape(i.url) \o <<"</guid>", NL>>
    \o <<Indent2, "<description>", "<![CDATA[">> \o i.brief \o <<"]]>", "</description>", NL>>
    \o <<"</item>", NL>>

RECURSIVE RssBody(_)
RssBody(items) == IF items = <<>> THEN <<>> ELSE RssItem(Head(items)) \o RssBody(Tail(items))

build_rss(items) == RssHead \o RssBody(items) \o RssTail

\* re.finditer(r"<guid[^>]*>([\s\S]*?)</guid>", txt) from position from, each
\* group stripped
RECURSIVE GuidLoop(_, _)
GuidLoop(txt, from) ==
    LET starts == {p \in from..Len(txt) :
                      /\ txt[p] = "<guid"
                      /\ TagEnd(txt, p) # 0
                      /\ Find(txt, <<"</guid>">>, TagEnd(txt, p) + 1) # 0}
    IN  IF starts = {} THEN <<>>
        ELSE LET p == Least(starts)
                 e == Find(txt, <<"</guid>">>, TagEnd(txt, p) + 1)
             IN  <<Strip(Slice(txt, TagEnd(txt, p) + 1, e - 1))>> \o GuidLoop(txt, e + 1)

load_old_guids(f) == IF f = Missing THEN <<>> ELSE GuidLoop(f, 1)

(***************************************************************************)
(* main (src/render_and_extract.py:209-235)                                *)
(***************************************************************************)
Urls(items) == {items[k].url : k \in 1..Len(items)}

\* line 226
RECURSIVE UnseenItems(_, _)
UnseenItems(items, old_set) ==
    IF items = <<>> THEN <<>>
    ELSE (IF Head(items).url \notin old_set THEN <<Head(items)>> ELSE <<>>)
         \o UnseenItems(Tail(items), old_set)

\* line 227
RECURSIVE Placeholders(_, _)
Placeholders(guids, items) ==
    IF guids = <<>> THEN <<>>
    ELSE (IF ~\E k \in 1..Len(items) : items[k].url = Head(guids)
          THEN <<[url |-> Head(guids), title |-> <<>>, brief |-> <<>>]>>
          ELSE <<>>)
         \o Placeholders(Tail(guids), items)

\* lines 226-227 with the placeholders put first
merge_old_first(items, guids) ==
    Placeholders(guids, items) \o UnseenItems(items, {guids[k] : k \in 1..Len(guids)})

\* lines 224-227
merge(items, guids) ==
    UnseenItems(items, {guids[k] : k \in 1..Len(guids)}) \o Placeholders(guids, items)

\* merged[:MAX_ITEMS]
Take(s, n) == SubSeq(s, 1, Min(Len(s), n))

(***************************************************************************)
(* RSSFeedGenerator.generate_rss and escape_xml                            *)
(* (src/generate_rss.py:195-267)                                           *)
(***************************************************************************)
\* datetime.now() formatted: the clock's reading, one token
Now == "Thu, 05 Nov 2026 00:00:00 +0600"

\* parse_bangla_date of an absent or unparseable date (lines 192-193): the
\* pages of the model carry no CreatedAtBangla
parse_bangla_date(bangla_date) == <<Now>>

\* escape_xml
escape_xml(s) == IF s = <<>> THEN <<>> ELSE html_escape(s)

\* article.get(key, default) for string fields
GetOr(article, k, default) ==
    IF \E j \in 1..Len(article.v) : article.v[j][1] = Key(k) THEN Get(article, k).v ELSE default

\* lines 205-219, joined by "\n"
GenHead ==
    <<"<?xml version=\"1.0\" encoding=\"UTF-8\"?>", NL,
      "<rss version=\"2.0\"", SP, "xmlns:atom=\"http://www.w3.org/2005/Atom\"", SP,
      "xmlns:dc=\"http://purl.org/dc/elements/1.1/\"", SP,
      "xmlns:content=\"http://purl.org/rss/1.0/modules/content/\"", ">", NL,
      Indent2, "<channel>", NL,
      Indent4, "<title>", "Dhaka Post - Opinion", "</title>", NL,
      Indent4, "<link>", "https://www.dhakapost.com/opinion", "</link>", NL,
      Indent4, "<description>", "Latest opinion articles from Dhaka Post", "</description>", NL,
      Indent4, "<language>", "bn", "</language>", NL,
      Indent4, "<lastBuildDate>", Now, "</lastBuildDate>", NL,
      Indent4, "<generator>", "Dhaka Post RSS Generator", "</generator>", NL,
      NL>>

\* lines 223-255 for one article that is a mapping
GenItem(article) ==
    LET title == GetOr(article, "Heading", <<"No Title">>)
                 \o (IF Truthy(Get(article, "Subheading"))
                     THEN <<SP, "|", SP>> \o Get(article, "Subheading").v ELSE <<>>)
        link        == GetOr(article, "URL", <<>>)
        description == GetOr(article, "Brief", <<>>)
        pub_date    == parse_bangla_date(GetOr(article, "CreatedAtBangla", <<>>))
        image_url   == GetOr(article, "ImagePathMd", <<>>)
        content_html ==
            (IF image_url # <<>>
             THEN <<"<img src=", DQ>> \o image_url \o <<DQ, SP, "alt=", DQ>> \o escape_xml(title)
                  \o <<DQ, SP, "/>", "<br/>", "<br/>">>
             ELSE <<>>)
            \o escape_xml(description)
    IN  <<Indent4, "<item>", NL>>
        \o <<Indent6, "<title>">> \o escape_xml(title) \o <<"</title>", NL>>
        \o <<Indent6, "<link>">> \o escape_xml(link) \o <<"</link>", NL>>
        \o <<Indent6, "<description>">> \o escape_xml(description) \o <<"</description>", NL>>
        \o <<Indent6, "<guid", SP, "isPermaLink=", DQ, "true", DQ, ">">> \o escape_xml(link)
           \o <<"</guid>", NL>>
        \o <<Indent6, "<pubDate>">> \o pub_date \o <<"</pubDate>", NL>>
        \o <<Indent6, "<category>", "Opinion", "</category>", NL>>
        \o <<Indent6, "<dc:creator>", "Dhaka Post", "</dc:creator>", NL>>
        \o (IF image_url # <<>>
            THEN <<Indent6, "<enclosure url=", DQ>> \o escape_xml(image_url)
                 \o <<DQ, SP, "type=", DQ, "image/jpeg", DQ, SP, "length=", DQ, "0", DQ, "/>", NL>>
            ELSE <<>>)
        \o <<Indent6, "<content:encoded>", "<![CDATA[">> \o content_html
           \o <<"]]>", "</content:encoded>", NL>>
        \o <<Indent4, "</item>", NL, NL>>

\* the loop of lines 221-259: an article that is no mapping raises and is skipped
RECURSIVE GenBody(_)
GenBody(articles) ==
    IF articles = <<>> THEN <<>>
    ELSE (IF Head(articles).t = "obj" THEN GenItem(Head(articles)) ELSE <<>>)
         \o GenBody(Tail(articles))

generate_rss(articles) ==
    GenHead \o GenBody(articles) \o <<Indent2, "</channel>", NL, "</rss>">>

(***************************************************************************)
(* Runs: main (src/render_and_extract.py:209-235) and                      *)
(* RSSFeedGenerator.update_feed (src/generate_rss.py:269-305), run after   *)
(* run on the same feed.xml                                                *)
(***************************************************************************)
MaxRuns == 3

\* initialContents = {"items": [ {"URL": u}, ... ]};
ItemsPage(urls) ==
    <<"initialContents", "=">>
    \o ToJson(JObj(<<<<Key("items"),
                      JArr([k \in 1..Len(urls) |-> JObj(<<Member("URL", urls[k])>>)])>>>>))
    \o <<";">>

\* a page whose only script holds no data
NoDataPage == <<"<script", ">", "a", "</script>">>

\* opinion.html as a run finds it: object-style and array-style embeddings,
\* a page without data, a page whose data does not parse, an empty file
Pages ==
    { ItemsPage(<<<<"x">>, <<"y">>>>),
      ItemsPage(<<<<"y">>, <<"z">>>>),
      ItemsPage(<<<<"w">>>>),
      ItemsPage(<<<<"x">>, <<"y">>, <<"z">>, <<"w">>>>),
      ItemsPage(<<<<"x", "&", "y">>>>),
      ItemsPage(<<>>),
      <<"initialContents", "=">>
          \o ToJson(JObj(<<<<Key("items"), JArr(<<JObj(<<Member("URL", <<"x">>),
                                                        Member("Heading", <<"T">>),
                                                        Member("Brief", <<"b">>)>>)>>)>>>>)),
      ArrayPage(JArr(<<JObj(<<Member("URL", <<"x">>)>>), JObj(<<Member("URL", <<"z">>)>>)>>), <<";">>),
      ArrayPage(JArr(<<JObj(<<Member("URL", <<"y">>), Member("Heading", <<"T">>)>>)>>), <<>>),
      NoDataPage,
      <<"initialContents", "=", "{", "a", "}", ";">>,
      <<>> }

InitMain ==
    /\ pc = "idle"
    /\ feed = Missing
    /\ html = <<>> /\ start_idx = 1 /\ raw = Idle /\ ret = Idle
    /\ old_guids = <<>> /\ new_items = <<>> /\ final = <<>> /\ exit_code = "NoExit" /\ runs = 0

\* one run of main(): html is opinion.html as read, or as render_page returned it
Main ==
    /\ runs < MaxRuns
    /\ runs' = runs + 1
    /\ pc' = "main"
    /\ \E page \in Pages :
          /\ html' = page
          /\ IF page = <<>>
             THEN /\ exit_code' = "1"
                  /\ UNCHANGED <<raw, new_items, old_guids, final, feed>>
             ELSE /\ raw' = Or(extract_json_like(page), JObj(<<>>))
                  /\ new_items' = normalize_items(raw')
                  /\ old_guids' = load_old_guids(feed)
                  /\ final' = Take(merge(new_items', old_guids'), MAX_ITEMS)
                  /\ feed' = build_rss(final')
                  /\ exit_code' = "0"
    /\ UNCHANGED <<start_idx, ret>>

\* one run of generate_rss.py: update_feed, then sys.exit(0 if success else 1)
UpdateFeed ==
    /\ runs < MaxRuns
    /\ runs' = runs + 1
    /\ pc' = "update_feed"
    /\ \E page \in Pages :
          /\ html' = page
          /\ IF page = <<>> \/ extract_articles(page) = <<>>
             THEN /\ exit_code' = "1"
                  /\ UNCHANGED feed
             ELSE /\ feed' = generate_rss(extract_articles(page))
                  /\ exit_code' = "0"
    /\ UNCHANGED <<start_idx, raw, ret, old_guids, new_items, final>>

NextMain == Main \/ UpdateFeed

SpecMain == InitMain /\ [][NextMain]_vars

\* the GUIDs a feed file holds
GuidsOf(f) == {load_old_guids(f)[k] : k \in 1..Len(load_old_guids(f))}

\* the number of items a feed file holds
ItemCount(f) == Cardinality({p \in 1..Len(f) : f[p] = "<item>"})

\* C1: every GUID of the prior feed file is a GUID of the feed file main()
\* writes, whenever the prior GUIDs and the URLs of the new scrape number at
\* most MAX_ITEMS together; so are the URLs of the new scrape.  (Stated for the
\* GUIDs that html.escape writes as they are.)
C1_GuidsPreserved ==
    [][ ( /\ pc' = "main" /\ exit_code' = "0"
          /\ Cardinality(GuidsOf(feed) \cup Urls(new_items')) <= MAX_ITEMS )
        => \A g \in GuidsOf(feed) \cup Urls(new_items') :
              html_escape(g) = g => g \in GuidsOf(feed') ]_vars

\* main() ran on a prior feed holding a GUID that the new scrape lists too
C1_Witness ==
    /\ pc = "main" /\ exit_code = "0"
    /\ \E g \in Urls(new_items) : \E k \in 1..Len(old_guids) : old_guids[k] = g
    /\ \E k \in 1..Len(old_guids) : old_guids[k] \notin Urls(new_items)
    /\ Cardinality(Urls(new_items) \cup {old_guids[k] : k \in 1..Len(old_guids)}) <= MAX_ITEMS

\* the list the claim describes, from the new articles and the old GUIDs
RefSelect(s, keep) ==
    LET F[n \in 0..Len(s)] ==
            IF n = 0 THEN <<>>
            ELSE IF s[n] \in keep THEN Append(F[n - 1], s[n]) ELSE F[n - 1]
    IN  F[Len(s)]

RefMerged(items, guids) ==
    LET old   == {guids[k] : k \in 1..Len(guids)}
        fresh == RefSelect(items, {items[k] : k \in {j \in 1..Len(items) : items[j].url \notin old}})
        kept  == RefSelect(guids, old \ Urls(items))
        whole == fresh \o [k \in 1..Len(kept) |-> [url |-> kept[k], title |-> <<>>, brief |-> <<>>]]
    IN  [k \in 1..Min(Len(whole), MAX_ITEMS) |-> whole[k]]

\* C2: the list main() writes is the new articles whose URL is not an old GUID,
\* in scrape order, then one placeholder per old GUID that no new article has,
\* in the order of the old feed, cut to its first MAX_ITEMS entries; the feed
\* written holds these items and never more than MAX_ITEMS; with no prior feed
\* file it holds exactly the new articles (the first MAX_ITEMS of them).
C2_MergedList ==
    [][ (pc' = "main" /\ exit_code' = "0")
        => /\ final' = RefMerged(new_items', load_old_guids(feed))
           /\ feed' = build_rss(final')
           /\ ItemCount(feed') = Len(final')
           /\ ItemCount(feed') <= MAX_ITEMS
           /\ feed = Missing =>
                 /\ final' = [k \in 1..Min(Len(new_items'), MAX_ITEMS) |-> new_items'[k]]
                 /\ Len(new_items') <= MAX_ITEMS => final' = new_items' ]_vars

\* main() merged new articles and old GUIDs into more than MAX_ITEMS entries:
\* the list written starts with a new article, holds a placeholder, and a
\* placeholder was cut off
C2_Witness ==
    /\ pc = "main" /\ exit_code = "0"
    /\ Len(final) = MAX_ITEMS
    /\ final[1].url \in Urls(new_items)
    /\ \E k \in 1..Len(final) : final[k].url \notin Urls(new_items)
    /\ \E k \in 1..Len(old_guids) : old_guids[k] \notin Urls(final) \cup Urls(new_items)

\* C9: when no label and no script pattern of the page yields parseable JSON,
\* the run ends with exit status 0 and the feed file written holds one
\* placeholder per old GUID (the first MAX_ITEMS of them) and nothing else.
C9_ExtractionFailureNonFatal ==
    [][ (runs' = runs + 1 /\ html' # <<>> /\ extract_json_like(html') = PyNone)
        => /\ exit_code' = "0"
           /\ feed' = build_rss([k \in 1..Min(Len(load_old_guids(feed)), MAX_ITEMS) |->
                                   [url |-> load_old_guids(feed)[k], title |-> <<>>, brief |-> <<>>]])
      ]_vars

\* a run found a page without data while the feed file held GUIDs
C9_Witness ==
    /\ pc \in {"main", "update_feed"}
    /\ html # <<>> /\ extract_json_like(html) = PyNone
    /\ feed # Missing /\ GuidsOf(feed) # {}

(***************************************************************************)
(* Round trip: build_rss writes the feed file, load_old_guids reads it     *)
(* back (src/render_and_extract.py:156-177)                                *)
(***************************************************************************)
MaxFeedItems == 3

\* URLs of items: plain ones, and ones holding the characters html.escape rewrites
FeedUrls ==
    { <<"x">>, <<"y">>, <<"x", "/", "y">>, <<"x", "&", "y">>, <<"a", "<", "b">>,
      <<"q", ">">>, <<"x", DQ, "y">>, <<"x", SQ>> }

FeedItems == {[url |-> u, title |-> <<"T">>, brief |-> <<>>] : u \in FeedUrls}

InitRoundTrip ==
    /\ pc = "build"
    /\ final \in SeqsOver(FeedItems, MaxFeedItems)
    /\ feed = Missing
    /\ html = <<>> /\ start_idx = 1 /\ raw = Idle /\ ret = Idle
    /\ old_guids = <<>> /\ new_items = <<>> /\ exit_code = "NoExit" /\ runs = 0

\* xml = build_rss(final); FEED_FILE.write_text(xml)
BuildRss ==
    /\ pc = "build"
    /\ feed' = build_rss(final)
    /\ pc' = "written"
    /\ UNCHANGED <<html, start_idx, raw, ret, old_guids, new_items, final, exit_code, runs>>

\* old_guids = load_old_guids(FEED_FILE), on the next run
LoadOldGuids ==
    /\ pc = "written"
    /\ old_guids' = load_old_guids(feed)
    /\ pc' = "loaded"
    /\ UNCHANGED <<html, start_idx, raw, ret, feed, new_items, final, exit_code, runs>>

NextRoundTrip == BuildRss \/ LoadOldGuids

SpecRoundTrip == InitRoundTrip /\ [][NextRoundTrip]_vars

\* C11: load_old_guids applied to the text build_rss produced returns the
\* items' url values, in order, whatever characters the URLs hold; so the
\* same items scraped again are all recognised as seen: none is new and no
\* GUID read back needs a placeholder.
C11_GuidRoundTrip ==
    pc = "loaded" =>
        /\ old_guids = [k \in 1..Len(final) |-> final[k].url]
        /\ UnseenItems(final, {old_guids[k] : k \in 1..Len(old_guids)}) = <<>>
        /\ Placeholders(old_guids, final) = <<>>

\* a feed holding an item whose URL has a character html.escape rewrites was
\* written and read back
C11_Witness ==
    /\ pc = "loaded"
    /\ \E k \in 1..Len(final) : html_escape(final[k].url) # final[k].url

====
